---------------------------- MODULE Spec2Model ----------------------------
(***************************************************************************)
(* EVE Sentinel, src-tauri/src/main.rs: the native bootstrapper.           *)
(*                                                                         *)
(* main() builds a tauri::Builder with four plugins, attaches a setup      *)
(* closure (on non-mobile targets it registers the single-instance guard   *)
(* with a callback that focuses the window "main"; then it prints the      *)
(* startup line), installs an empty invoke handler, runs the host and      *)
(* `.expect`s the result.                                                  *)
(*                                                                         *)
(* The model runs up to MaxProc launches of that program on one machine.   *)
(* What main.rs itself does is translated line by line.  What the host     *)
(* (tauri, tauri_plugin_single_instance, the OS) does between those lines  *)
(* is not in the repository; it is modelled as the host contract the       *)
(* specification describes, and every such definition says so.             *)
(***************************************************************************)
EXTENDS Naturals, Sequences, FiniteSets

\* Number of launches of the application the model follows.
MaxProc == 2

Procs == 1..MaxProc

\* Targets the crate can be built for; one is fixed per behaviour.
TargetOS == {"linux", "windows", "macos", "android", "ios"}

\* The platforms the specification calls mobile and desktop.
MobileOS == {"android", "ios"}
DesktopOS == TargetOS \ MobileOS

\* Window labels a host configuration may declare; line 19 asks for "main".
WindowLabels == {"main", "splash"}
MainLabel == "main"

\* Command names the hosted content may try to invoke.
CommandNames == {"get_status", "scan_pilot"}

\* line 26
StartupLine == "EVE Sentinel starting..."

Results == {"none", "Ok", "Err"}

VARIABLES
  target_os,    \* the target the binary was compiled for
  pc,           \* per process: where main() (or the host under it) stands
  plugins,      \* per process: plugins registered so far, in order
  commands,     \* per process: the invoke handler's command table
  shown,        \* per process: windows the host ever created
  windows,      \* per process: windows that exist now
  guardRes,     \* per process: outcome of the guard's registration
  guardTries,   \* per process: registrations of the guard attempted
  setupResult,  \* per process: what the setup closure returned
  runResult,    \* per process: what Builder::run returned
  stdout,       \* per process: lines written to standard output
  loopStarted,  \* per process: the event loop began dispatching
  pending,      \* per process: second-launch notifications not yet dispatched
  handled,      \* per process: single-instance callbacks run
  focusLog,     \* per process: labels of windows sent a focus request
  invokeOut,    \* per process: outcome of the last invoke from the content
  exitKind,     \* per process: how the process ended
  lockHolder    \* the process owning the machine-wide instance lock, 0 if none

vars == <<target_os, pc, plugins, commands, shown, windows, guardRes,
          guardTries, setupResult, runResult, stdout, loopStarted, pending,
          handled, focusLog, invokeOut, exitKind, lockHolder>>

Upd(f, p, v) == [f EXCEPT ![p] = v]

----------------------------------------------------------------------------
(* main.rs, translated                                                      *)

\* Faulty variant of BuilderPlugins: the first two calls of the chain are swapped.
BuilderPluginsSwapped == <<"http", "shell", "notification", "opener">>

\* lines 10-13: the four builder plugins, in the order of the chain
BuilderPlugins == <<"shell", "http", "notification", "opener">>

\* line 18: the plugin the setup closure registers
GuardPlugin == "single_instance"

\* Faulty variant of GuardCfg: the cfg attribute is left out, the block is compiled
\* for every target.
GuardCfgAlways == TRUE

\* Faulty variant of SetupEntry: the guard's block is compiled for no target.
SetupEntryNoGuard == "log"

\* line 16: #[cfg(not(any(target_os = "android", target_os = "ios")))]
GuardCfg == target_os \notin {"android", "ios"}

\* lines 14-26: the first statement of the setup closure on this target
SetupEntry == IF GuardCfg THEN "guard" ELSE "log"

\* Faulty variant of AfterGuard: the Result is dropped (`let _ =`) instead of `?`.
AfterGuardIgnored(res) == "log"

\* line 22: `?` on the registration's Result: Err leaves the closure at once
AfterGuard(res) == IF res = "Err" THEN "setup_failed" ELSE "log"

\* Faulty variant of LogStartup: the line is printed twice.
LogStartupTwice(out) == Append(Append(out, StartupLine), StartupLine)

\* line 26: println!
LogStartup(out) == Append(out, StartupLine)

\* Faulty variant of GenerateHandler: one command is listed in the macro.
GenerateHandlerOne == {"get_status"}

\* line 30: tauri::generate_handler![] lists no command
GenerateHandler == {}

\* Faulty variant of Callback: `.unwrap()` on the lookup and on set_focus.
CallbackUnwrap(wins, res) ==
  IF MainLabel \in wins
    THEN [focus |-> <<MainLabel>>, panic |-> res = "Err"]
    ELSE [focus |-> <<>>, panic |-> TRUE]

\* Faulty variant of Callback: without "main" it focuses whatever window is left.
CallbackAnyWindow(wins, res) ==
  IF MainLabel \in wins
    THEN [focus |-> <<MainLabel>>, panic |-> FALSE]
    ELSE [focus |-> IF wins = {} THEN <<>> ELSE <<CHOOSE w \in wins : TRUE>>,
          panic |-> FALSE]

\* lines 19-21: the single-instance callback.  `wins` are the windows of
\* the running instance, `res` is what set_focus returns; line 20 drops it.
Callback(wins, res) ==
  IF MainLabel \in wins
    THEN [focus |-> <<MainLabel>>, panic |-> FALSE]
    ELSE [focus |-> <<>>, panic |-> FALSE]

\* Faulty variant of Expect: the error is swallowed (`.ok()`), main returns.
ExpectSwallowed(res) == "returned"

\* line 32: .expect(...) panics on Err, otherwise main returns
Expect(res) == IF res = "Err" THEN "panic" ELSE "returned"

----------------------------------------------------------------------------
Init ==
  /\ target_os \in TargetOS
  /\ pc = [p \in Procs |-> "idle"]
  /\ plugins = [p \in Procs |-> <<>>]
  /\ commands = [p \in Procs |-> {}]
  /\ shown = [p \in Procs |-> {}]
  /\ windows = [p \in Procs |-> {}]
  /\ guardRes = [p \in Procs |-> "none"]
  /\ guardTries = [p \in Procs |-> 0]
  /\ setupResult = [p \in Procs |-> "none"]
  /\ runResult = [p \in Procs |-> "none"]
  /\ stdout = [p \in Procs |-> <<>>]
  /\ loopStarted = [p \in Procs |-> FALSE]
  /\ pending = [p \in Procs |-> 0]
  /\ handled = [p \in Procs |-> 0]
  /\ focusLog = [p \in Procs |-> <<>>]
  /\ invokeOut = [p \in Procs |-> "none"]
  /\ exitKind = [p \in Procs |-> "none"]
  /\ lockHolder = 0

\* The process is gone: its windows and queued notifications go with it and
\* the instance lock, if it owned it, is free again.
Ended(p, kind) ==
  /\ pc' = Upd(pc, p, "ended")
  /\ exitKind' = Upd(exitKind, p, kind)
  /\ windows' = Upd(windows, p, {})
  /\ pending' = Upd(pending, p, 0)
  /\ lockHolder' = IF lockHolder = p THEN 0 ELSE lockHolder

\* line 8: the OS starts main()
Launch(p) ==
  /\ pc[p] = "idle"
  /\ pc' = Upd(pc, p, "plugin")
  /\ UNCHANGED <<target_os, plugins, commands, shown, windows, guardRes,
                 guardTries, setupResult, runResult, stdout, loopStarted,
                 pending, handled, focusLog, invokeOut, exitKind, lockHolder>>

\* lines 9-13: Builder::default() and the next .plugin(...) of the chain
BuilderPlugin(p) ==
  /\ pc[p] = "plugin"
  /\ Len(plugins[p]) < Len(BuilderPlugins)
  /\ plugins' = Upd(plugins, p, Append(plugins[p],
                                       BuilderPlugins[Len(plugins[p]) + 1]))
  /\ pc' = Upd(pc, p, IF Len(plugins[p]) + 1 = Len(BuilderPlugins)
                        THEN "setup" ELSE "plugin")
  /\ UNCHANGED <<target_os, commands, shown, windows, guardRes, guardTries,
                 setupResult, runResult, stdout, loopStarted, pending,
                 handled, focusLog, invokeOut, exitKind, lockHolder>>

\* line 14: .setup(closure) stores the closure; nothing of it runs yet
AttachSetup(p) ==
  /\ pc[p] = "setup"
  /\ pc' = Upd(pc, p, "invoke_handler")
  /\ UNCHANGED <<target_os, plugins, commands, shown, windows, guardRes,
                 guardTries, setupResult, runResult, stdout, loopStarted,
                 pending, handled, focusLog, invokeOut, exitKind, lockHolder>>

\* line 30: .invoke_handler(tauri::generate_handler![])
InvokeHandler(p) ==
  /\ pc[p] = "invoke_handler"
  /\ commands' = Upd(commands, p, GenerateHandler)
  /\ pc' = Upd(pc, p, "run")
  /\ UNCHANGED <<target_os, plugins, shown, windows, guardRes, guardTries,
                 setupResult, runResult, stdout, loopStarted, pending,
                 handled, focusLog, invokeOut, exitKind, lockHolder>>

\* line 31: .run(context) builds the host.  Building can fail (a builder
\* plugin does not initialise): run returns Err and line 32 is next.
Run(p) ==
  /\ pc[p] = "run"
  /\ \E ok \in BOOLEAN :
       IF ok
         THEN /\ pc' = Upd(pc, p, "windows")
              /\ UNCHANGED runResult
         ELSE /\ pc' = Upd(pc, p, "expect")
              /\ runResult' = Upd(runResult, p, "Err")
  /\ UNCHANGED <<target_os, plugins, commands, shown, windows, guardRes,
                 guardTries, setupResult, stdout, loopStarted, pending,
                 handled, focusLog, invokeOut, exitKind, lockHolder>>

\* line 31: run(generate_context!()): once built, the host creates the
\* windows its configuration declares and only then calls the setup closure
\* (which is why a setup closure can look its windows up).  The
\* configuration is not part of main.rs: any set of labels may be declared.
HostCreateWindows(p) ==
  /\ pc[p] = "windows"
  /\ \E ws \in SUBSET WindowLabels :
       /\ shown' = Upd(shown, p, ws)
       /\ windows' = Upd(windows, p, ws)
  /\ pc' = Upd(pc, p, SetupEntry)
  /\ UNCHANGED <<target_os, plugins, commands, guardRes, guardTries,
                 setupResult, runResult, stdout, loopStarted, pending,
                 handled, focusLog, invokeOut, exitKind, lockHolder>>

\* line 22: the registration returned Err; `?` takes it out of the closure
GuardFails(p) ==
  /\ guardRes' = Upd(guardRes, p, "Err")
  /\ setupResult' = Upd(setupResult, p,
                        IF AfterGuard("Err") = "setup_failed"
                          THEN "Err" ELSE setupResult[p])
  /\ pc' = Upd(pc, p, AfterGuard("Err"))
  /\ UNCHANGED <<plugins, windows, pending, exitKind, lockHolder>>

\* tauri_plugin_single_instance, first instance: the machine-wide instance
\* lock is free; the plugin takes it and the registration returns Ok.
GuardAcquires(p) ==
  /\ lockHolder = 0
  /\ guardRes' = Upd(guardRes, p, "Ok")
  /\ plugins' = Upd(plugins, p, Append(plugins[p], GuardPlugin))
  /\ lockHolder' = p
  /\ pc' = Upd(pc, p, AfterGuard("Ok"))
  /\ UNCHANGED <<setupResult, windows, pending, exitKind>>

\* tauri_plugin_single_instance, second instance: another process owns the
\* lock; the plugin notifies the owner (whose event loop will run the
\* callback of line 18) and exits this process.
GuardIntercepts(p) ==
  /\ lockHolder \notin {0, p}
  /\ guardRes' = Upd(guardRes, p, "intercepted")
  /\ pc' = Upd(pc, p, "ended")
  /\ exitKind' = Upd(exitKind, p, "intercepted")
  /\ windows' = Upd(windows, p, {})
  /\ pending' = [pending EXCEPT ![lockHolder] = @ + 1]
  /\ UNCHANGED <<plugins, setupResult, lockHolder>>

\* lines 16-23: app.handle().plugin(tauri_plugin_single_instance::init(cb))?
SetupGuard(p) ==
  /\ pc[p] = "guard"
  /\ guardTries' = Upd(guardTries, p, guardTries[p] + 1)
  /\ \/ GuardFails(p)
     \/ GuardAcquires(p)
     \/ GuardIntercepts(p)
  /\ UNCHANGED <<target_os, commands, shown, runResult, stdout, loopStarted,
                 handled, focusLog, invokeOut>>

\* lines 25-28: println!("EVE Sentinel starting..."); Ok(())
SetupLog(p) ==
  /\ pc[p] = "log"
  /\ stdout' = Upd(stdout, p, LogStartup(stdout[p]))
  /\ setupResult' = Upd(setupResult, p, "Ok")
  /\ pc' = Upd(pc, p, "setup_done")
  /\ UNCHANGED <<target_os, plugins, commands, shown, windows, guardRes,
                 guardTries, runResult, loopStarted, pending, handled,
                 focusLog, invokeOut, exitKind, lockHolder>>

\* lines 31-32: the closure returned Err.  main.rs does not fix how the
\* host reports it: run returns Err (and line 32 panics) or the host
\* panics itself.
HostSetupFailed(p) ==
  /\ pc[p] = "setup_failed"
  /\ \/ /\ runResult' = Upd(runResult, p, "Err")
        /\ pc' = Upd(pc, p, "expect")
        /\ UNCHANGED <<exitKind, windows, pending, lockHolder>>
     \/ /\ Ended(p, "panic")
        /\ UNCHANGED runResult
  /\ UNCHANGED <<target_os, plugins, commands, shown, guardRes, guardTries,
                 setupResult, stdout, loopStarted, handled, focusLog,
                 invokeOut>>

\* line 31: the closure returned Ok: the event loop starts dispatching
StartLoop(p) ==
  /\ pc[p] = "setup_done"
  /\ pc' = Upd(pc, p, "running")
  /\ loopStarted' = Upd(loopStarted, p, TRUE)
  /\ UNCHANGED <<target_os, plugins, commands, shown, windows, guardRes,
                 guardTries, setupResult, runResult, stdout, pending,
                 handled, focusLog, invokeOut, exitKind, lockHolder>>

\* lines 18-21: the loop dispatches a second-launch notification to the
\* callback registered on line 18
SecondInstance(p) ==
  /\ pc[p] = "running"
  /\ pending[p] > 0
  /\ handled' = Upd(handled, p, handled[p] + 1)
  /\ \E res \in {"Ok", "Err"} :
       LET r == Callback(windows[p], res) IN
         /\ focusLog' = Upd(focusLog, p, focusLog[p] \o r.focus)
         /\ IF r.panic
              THEN Ended(p, "panic")
              ELSE /\ pending' = Upd(pending, p, pending[p] - 1)
                   /\ UNCHANGED <<pc, exitKind, windows, lockHolder>>
  /\ UNCHANGED <<target_os, plugins, commands, shown, guardRes, guardTries,
                 setupResult, runResult, stdout, loopStarted, invokeOut>>

\* line 30: the hosted content invokes a command by name
Invoke(p) ==
  /\ pc[p] = "running"
  /\ \E cmd \in CommandNames :
       invokeOut' = Upd(invokeOut, p, IF cmd \in commands[p]
                                        THEN "handled"
                                        ELSE "unknown_command")
  /\ UNCHANGED <<target_os, pc, plugins, commands, shown, windows, guardRes,
                 guardTries, setupResult, runResult, stdout, loopStarted,
                 pending, handled, focusLog, exitKind, lockHolder>>

\* line 19: a window of the running instance is closed or destroyed
DestroyWindow(p) ==
  /\ pc[p] = "running"
  /\ \E w \in windows[p] : windows' = Upd(windows, p, windows[p] \ {w})
  /\ UNCHANGED <<target_os, pc, plugins, commands, shown, guardRes,
                 guardTries, setupResult, runResult, stdout, loopStarted,
                 pending, handled, focusLog, invokeOut, exitKind, lockHolder>>

\* line 31: the event loop terminates and run returns Ok(())
LoopExit(p) ==
  /\ pc[p] = "running"
  /\ runResult' = Upd(runResult, p, "Ok")
  /\ windows' = Upd(windows, p, {})
  /\ pc' = Upd(pc, p, "expect")
  /\ UNCHANGED <<target_os, plugins, commands, shown, guardRes, guardTries,
                 setupResult, stdout, loopStarted, pending, handled,
                 focusLog, invokeOut, exitKind, lockHolder>>

\* line 32: .expect("error while running tauri application")
ExpectRun(p) ==
  /\ pc[p] = "expect"
  /\ Ended(p, Expect(runResult[p]))
  /\ UNCHANGED <<target_os, plugins, commands, shown, guardRes, guardTries,
                 setupResult, runResult, stdout, loopStarted, handled,
                 focusLog, invokeOut>>

Next ==
  \E p \in Procs :
    \/ Launch(p)
    \/ BuilderPlugin(p)
    \/ AttachSetup(p)
    \/ InvokeHandler(p)
    \/ Run(p)
    \/ HostCreateWindows(p)
    \/ SetupGuard(p)
    \/ SetupLog(p)
    \/ HostSetupFailed(p)
    \/ StartLoop(p)
    \/ SecondInstance(p)
    \/ Invoke(p)
    \/ DestroyWindow(p)
    \/ LoopExit(p)
    \/ ExpectRun(p)

Spec == Init /\ [][Next]_vars

TypeOK ==
  /\ target_os \in TargetOS
  /\ pc \in [Procs -> {"idle", "plugin", "setup", "invoke_handler", "run",
                       "windows", "guard", "log", "setup_failed",
                       "setup_done", "running", "expect", "ended"}]
  /\ \A p \in Procs :
       /\ windows[p] \subseteq shown[p]
       /\ shown[p] \subseteq WindowLabels
       /\ setupResult[p] \in Results
       /\ runResult[p] \in Results
       /\ guardRes[p] \in {"none", "Ok", "Err", "intercepted"}
       /\ exitKind[p] \in {"none", "panic", "returned", "intercepted"}
       /\ pending[p] \in 0..MaxProc
       /\ handled[p] \in 0..MaxProc
  /\ lockHolder \in {0} \cup Procs

----------------------------------------------------------------------------
(* Properties                                                               *)

OnDesktop == target_os \in DesktopOS
OnMobile == target_os \in MobileOS

Running == {p \in Procs : pc[p] = "running"}

IsPrefix(s, t) == Len(s) <= Len(t) /\ \A i \in 1..Len(s) : s[i] = t[i]

\* The registration order the specification states for the target.
StatedOrder ==
  IF OnDesktop
    THEN <<"shell", "http", "notification", "opener", "single_instance">>
    ELSE <<"shell", "http", "notification", "opener">>

C2_AtMostOneRunning ==
  OnDesktop =>
    /\ Cardinality(Running) <= 1
    /\ \A p \in Procs :
         /\ pc[p] = "running" => lockHolder = p
         /\ guardRes[p] = "intercepted" =>
              /\ pc[p] = "ended"
              /\ exitKind[p] = "intercepted"
              /\ ~loopStarted[p]
              /\ lockHolder # p

C2_Witness ==
  /\ OnDesktop
  /\ \E p \in Procs, q \in Procs :
       /\ pc[p] = "running"
       /\ guardRes[q] = "intercepted"
       /\ pc[q] = "ended"

\* C3: a failed plugin registration is fatal: once the guard's registration
\* (or the host's build) has failed the setup closure has returned Err, the
\* process is on its way to the panic or has panicked, its event loop never
\* started, the registration was not tried again, and no process runs on a
\* desktop target without the guard.
C3_SetupFailureIsFatal ==
  \A p \in Procs :
    /\ guardRes[p] = "Err" =>
         /\ setupResult[p] = "Err"
         /\ pc[p] \in {"setup_failed", "expect", "ended"}
    /\ (guardRes[p] = "Err" \/ runResult[p] = "Err") =>
         /\ pc[p] \in {"setup_failed", "expect", "ended"}
         /\ ~loopStarted[p]
         /\ pc[p] = "expect" => runResult[p] = "Err"
         /\ pc[p] = "ended" => exitKind[p] = "panic"
    /\ guardTries[p] <= 1
    /\ (OnDesktop /\ pc[p] = "running") =>
         /\ guardRes[p] = "Ok"
         /\ plugins[p][Len(plugins[p])] = "single_instance"

C3_Witness ==
  \E p \in Procs :
    /\ guardRes[p] = "Err"
    /\ pc[p] = "ended"
    /\ exitKind[p] = "panic"

\* C4: when the single-instance callback runs and the window "main" does
\* not exist, no focus request is made and nothing else changes: the
\* instance keeps running and its windows, output, plugins, command table
\* and exit state are what they were.
C4_MissingWindowIsNoOp ==
  [][\A p \in Procs :
       (handled'[p] = handled[p] + 1 /\ MainLabel \notin windows[p]) =>
         /\ pc[p] = "running" /\ pc' = pc
         /\ focusLog' = focusLog
         /\ UNCHANGED <<windows, shown, stdout, plugins, commands, exitKind,
                        setupResult, runResult, lockHolder, invokeOut>>]_vars

C4_Witness ==
  \E p \in Procs :
    /\ pc[p] = "running"
    /\ handled[p] > 0
    /\ focusLog[p] = <<>>

\* C5: the startup line is printed only after every registration before it
\* succeeded: a process that has printed it has registered the four builder
\* plugins and, on desktop, the guard; a process whose guard registration
\* failed has printed nothing.
C5_LogOnlyAfterRegistration ==
  \A p \in Procs :
    /\ stdout[p] # <<>> =>
         /\ plugins[p] = StatedOrder
         /\ OnDesktop => guardRes[p] = "Ok"
    /\ guardRes[p] = "Err" => stdout[p] = <<>>

C5_Witness ==
  /\ OnDesktop
  /\ \E p \in Procs : stdout[p] # <<>> /\ Len(plugins[p]) = 5

\* C6: plugins are registered in one fixed order: what a process has
\* registered is always a prefix of shell, http, notification, opener and,
\* on non-mobile targets, single_instance; the guard is never registered on
\* a mobile target; a process whose setup succeeded has registered them all.
C6_FixedRegistrationOrder ==
  \A p \in Procs :
    /\ IsPrefix(plugins[p], StatedOrder)
    /\ OnMobile => \A i \in 1..Len(plugins[p]) :
                     plugins[p][i] # "single_instance"
    /\ setupResult[p] = "Ok" => plugins[p] = StatedOrder

C6_Witness ==
  \E p \in Procs :
    /\ pc[p] = "running"
    /\ Len(plugins[p]) = 5
    /\ plugins[p][1] = "shell"
    /\ plugins[p][5] = "single_instance"

\* C7: the command table is empty in every reachable state and every invoke
\* from the hosted content ends as an unknown command.
C7_CommandTableEmpty ==
  \A p \in Procs :
    /\ commands[p] = {}
    /\ invokeOut[p] \in {"none", "unknown_command"}

C7_Witness ==
  \E p \in Procs : invokeOut[p] = "unknown_command"

\* C8: on a mobile target the guard is absent: no registration is attempted,
\* nothing owns the instance lock, no launch is intercepted or ended by the
\* guard, and no callback or focus request happens.
C8_NoGuardOnMobile ==
  OnMobile =>
    /\ lockHolder = 0
    /\ \A p \in Procs :
         /\ guardTries[p] = 0
         /\ guardRes[p] = "none"
         /\ exitKind[p] # "intercepted"
         /\ pending[p] = 0
         /\ handled[p] = 0
         /\ focusLog[p] = <<>>

C8_Witness ==
  /\ OnMobile
  /\ \E p \in Procs, q \in Procs :
       p # q /\ pc[p] = "running" /\ pc[q] = "running"

\* C9 as stated: the loop dispatches only after the setup closure returned
\* Ok, and a process that has ended either returned from its event loop or
\* panicked before the loop started.
C9_ExitOnlyByLoopOrSetupFailure ==
  \A p \in Procs :
    /\ loopStarted[p] => setupResult[p] = "Ok"
    /\ (handled[p] > 0 \/ invokeOut[p] # "none") => loopStarted[p]
    /\ pc[p] = "ended" =>
         \/ loopStarted[p] /\ exitKind[p] = "returned"
         \/ ~loopStarted[p] /\ exitKind[p] = "panic"

\* C9, amended: as above, with the third way a process ends: on a desktop
\* target the guard's registration finds another instance and the process
\* exits during setup, before the closure returns and the loop starts.
C9_ExitByLoopFailureOrInterception ==
  \A p \in Procs :
    /\ loopStarted[p] => setupResult[p] = "Ok"
    /\ (handled[p] > 0 \/ invokeOut[p] # "none") => loopStarted[p]
    /\ pc[p] = "ended" =>
         \/ loopStarted[p] /\ exitKind[p] = "returned"
         \/ ~loopStarted[p] /\ exitKind[p] = "panic"
         \/ /\ ~loopStarted[p] /\ exitKind[p] = "intercepted"
            /\ OnDesktop /\ setupResult[p] = "none"

C9_Witness ==
  \E p \in Procs, q \in Procs :
    /\ exitKind[p] = "intercepted"
    /\ loopStarted[q] /\ exitKind[q] = "returned"

\* C10: a process prints the startup line exactly once when its setup
\* succeeds and never more than once; running the single-instance callback
\* prints nothing.
C10_OneStartupLine ==
  \A p \in Procs :
    /\ Len(stdout[p]) <= 1
    /\ setupResult[p] = "Ok" => stdout[p] = <<"EVE Sentinel starting...">>
    /\ setupResult[p] # "Ok" => stdout[p] = <<>>

C10_Witness ==
  \E p \in Procs : handled[p] > 0 /\ Len(stdout[p]) = 1
=============================================================================
